---- MODULE Spec2Model ----
(***************************************************************************)
(* Model of npg.py: the NIST-style password / passphrase generator.       *)
(*                                                                         *)
(* Strings are sequences of ASCII codes, so that case conversion,          *)
(* stripping and exact comparison are computed and not assumed.            *)
(* Floats (entropy, --min-entropy) are fixed-point numbers with FracBits   *)
(* fractional bits; math.log2 is computed bit by bit (Log2Fixed).          *)
(***************************************************************************)
EXTENDS Integers, Sequences, FiniteSets, TLC

VARIABLES args, pc, alphabet, vocab, drawn, secret, entropy, draws,
          bl, bl_loaded, stdout, exit_msg, probe

vars == <<args, pc, alphabet, vocab, drawn, secret, entropy, draws,
          bl, bl_loaded, stdout, exit_msg, probe>>

mainVars == <<args, pc, alphabet, vocab, drawn, secret, entropy, draws,
              bl, bl_loaded, stdout, exit_msg>>

(***************************************************************************)
(* Bounds of the model.                                                    *)
(***************************************************************************)
\* fractional bits kept of a float
FracBits == 9
\* the sampler's random index is one of the first NumPicks - 1 or the last
NumPicks == 2
\* longest password length asked of generate_password on its own
MaxLength == 9
\* most words asked of generate_passphrase on its own
MaxWords == 4
\* largest small draw space handed to bits_of_entropy directly
MaxSpace == 12

(***************************************************************************)
(* Program constants.                                                      *)
(***************************************************************************)
MinLength == 8
MinWords == 3
MinVocab == 2048
MinAlphabet == 10
DefaultLength == 20
DefaultWords == 6
DefaultMinEntropy == 64

(***************************************************************************)
(* Sequence helpers.                                                       *)
(***************************************************************************)
Range(s) == {s[i] : i \in 1..Len(s)}

CodeRange(a, b) == [i \in 1..(b - a + 1) |-> a + i - 1]

Rep(c, n) == [i \in 1..n |-> c]

RECURSIVE Pow2(_)
Pow2(n) == IF n <= 0 THEN 1 ELSE 2 * Pow2(n - 1)

Scale == Pow2(FracBits)

\* a whole number of bits as a float
Bits(n) == n * Scale

(***************************************************************************)
(* Character classes (Python's string module and str methods, ASCII).      *)
(***************************************************************************)
ascii_lowercase == CodeRange(97, 122)
ascii_uppercase == CodeRange(65, 90)
ascii_letters == ascii_lowercase \o ascii_uppercase
digits == CodeRange(48, 57)
punctuation ==
    CodeRange(33, 47) \o CodeRange(58, 64) \o CodeRange(91, 96) \o CodeRange(123, 126)

SPACE == 32
LF == 10
CR == 13
HASH == 35

\* str.strip() with no argument strips ASCII whitespace
Whitespace == {9, 10, 11, 12, 13, 28, 29, 30, 31, 32}

Upper(c) == IF c >= 97 /\ c <= 122 THEN c - 32 ELSE c
Lower(c) == IF c >= 65 /\ c <= 90 THEN c + 32 ELSE c

RECURSIVE RStrip(_, _)
RStrip(s, chars) ==
    IF Len(s) > 0 /\ s[Len(s)] \in chars
    THEN RStrip(SubSeq(s, 1, Len(s) - 1), chars)
    ELSE s

RECURSIVE LStrip(_, _)
LStrip(s, chars) ==
    IF Len(s) > 0 /\ s[1] \in chars THEN LStrip(Tail(s), chars) ELSE s

Strip(s) == LStrip(RStrip(s, Whitespace), Whitespace)

StartsWith(s, c) == Len(s) > 0 /\ s[1] = c

\* a capitalize that leaves the rest of the word as it is
Capitalize_FirstOnly(w) ==
    [i \in 1..Len(w) |-> IF i = 1 THEN Upper(w[i]) ELSE w[i]]

\* str.capitalize(): first character upper-cased, the rest lower-cased
Capitalize(w) ==
    [i \in 1..Len(w) |-> IF i = 1 THEN Upper(w[i]) ELSE Lower(w[i])]

RECURSIVE Join(_, _)
Join(sep, ws) ==
    IF Len(ws) = 0 THEN <<>>
    ELSE IF Len(ws) = 1 THEN ws[1]
    ELSE ws[1] \o sep \o Join(sep, Tail(ws))

\* "".join(dict.fromkeys(s)): first occurrences, in order
Dedup(s) ==
    LET firsts == SelectSeq([i \in 1..Len(s) |-> i],
                            LAMBDA i : \A j \in 1..(i - 1) : s[j] # s[i])
    IN [k \in 1..Len(firsts) |-> s[firsts[k]]]

(***************************************************************************)
(* Entropy.                                                                *)
(***************************************************************************)
RECURSIVE FloorLog2(_)
FloorLog2(n) == IF n <= 1 THEN 0 ELSE 1 + FloorLog2(n \div 2)

\* fractional bits of log2 of the mantissa x (x / one in [1, 2)), by squaring
RECURSIVE Log2Frac(_, _, _, _)
Log2Frac(x, one, acc, k) ==
    IF k = 0 THEN acc
    ELSE LET sq == (x * x) \div one
         IN IF sq >= 2 * one
            THEN Log2Frac(sq \div 2, one, 2 * acc + 1, k - 1)
            ELSE Log2Frac(sq, one, 2 * acc, k - 1)

\* math.log2(n) for n >= 1, in units of 1 / Scale bit
Log2Fixed(n) ==
    LET e == FloorLog2(n)
        one == Pow2(FracBits + 4)
    IN Log2Frac((n * one) \div Pow2(e), one, e, FracBits)

\* a guard one draw too strict
bits_of_entropy_OffByOne(space_size, length) ==
    IF space_size <= 1 \/ length <= 1 THEN 0
    ELSE length * Log2Fixed(space_size)

bits_of_entropy(space_size, length) ==
    IF space_size <= 1 \/ length <= 0 THEN 0
    ELSE length * Log2Fixed(space_size)

(***************************************************************************)
(* The files the command line can name.                                    *)
(***************************************************************************)
NoPath == "none"

WordA == <<97, 98>>
WordB == <<109, 99, 68>>
WordC == <<90, 113>>

\* the i-th token line of a wordlist file, with its line terminator
WordLine(i) ==
    CASE i % 3 = 1 -> WordA \o <<LF>>
      [] i % 3 = 2 -> <<SPACE>> \o WordB \o <<SPACE, LF>>
      [] OTHER     -> WordC \o <<CR, LF>>

WordlistHeader ==
    << <<HASH, SPACE, 119>> \o <<LF>>, <<LF>>, <<SPACE, SPACE, LF>>, <<SPACE, HASH, 120, LF>> >>

WordlistPaths == {"w2047", "w2048", "w2049"}

WordlistTokens(path) ==
    CASE path = "w2047" -> MinVocab - 1
      [] path = "w2048" -> MinVocab
      [] OTHER          -> MinVocab + 1

WordlistFile(path) ==
    WordlistHeader \o [i \in 1..WordlistTokens(path) |-> WordLine(i)]

PwFirst == Rep(97, MinLength)
PwNearMiss == Rep(65, MinLength - 1) \o <<126>>
PwTrailing == Rep(97, MinLength - 1) \o <<126, SPACE>>

BlocklistPaths == {"empty", "breached"}

EmptyBlocklist == << <<LF>>, <<CR, LF>> >>

BreachedBlocklist ==
    << PwFirst \o <<LF>>,
       <<LF>>,
       PwNearMiss \o <<CR, LF>>,
       PwTrailing \o <<LF>>,
       Join(<<SPACE>>, Rep(WordA, MinWords)) \o <<LF>>,
       Join(<<SPACE>>, Rep(WordA, DefaultWords)) \o <<CR, LF>>,
       Join(<<45>>, Rep(Capitalize(WordB), DefaultWords)) >>

BlocklistFile(path) ==
    IF path = "empty" THEN EmptyBlocklist ELSE BreachedBlocklist

(***************************************************************************)
(* Utilities.                                                              *)
(***************************************************************************)
load_blocklist(path) ==
    IF path = NoPath THEN {}
    ELSE LET f == BlocklistFile(path)
             stripped == {RStrip(f[i], {CR, LF}) : i \in 1..Len(f)}
         IN {s \in stripped : Len(s) > 0}

\* a membership test that ignores case
check_blocklist_NoCase(s, blocklist) ==
    \E b \in blocklist :
        /\ Len(b) = Len(s)
        /\ \A i \in 1..Len(s) : Lower(b[i]) = Lower(s[i])

check_blocklist(s, blocklist) == s \in blocklist

\* the indices secrets.choice may return for a sequence of n elements
Picks(n) == {i \in 1..n : i < NumPicks \/ i = n}

\* a draw loop that stops one symbol early
pick_chars_Short(alpha, length, p) == [i \in 1..(length - 1) |-> alpha[p[i]]]

pick_chars(alpha, length, p) == [i \in 1..length |-> alpha[p[i]]]

\* an ambiguous-glyph string that lost its last character
ambiguous_NoTilde ==
    <<73, 108, 49, 79, 48, 124, 96, 39, 34, 59, 58, 46, 44,
      123, 125, 91, 93, 40, 41, 60, 62, 94>>

ambiguous ==
    <<73, 108, 49, 79, 48, 124, 96, 39, 34, 59, 58, 46, 44,
      123, 125, 91, 93, 40, 41, 60, 62, 94, 126>>

\* an alphabet that gets the space whatever the option says
BuildAlphabet_AlwaysSpace(allow_space, exclude_ambiguous) ==
    LET spaced == Append(ascii_letters \o digits \o punctuation, SPACE)
    IN IF exclude_ambiguous
       THEN SelectSeq(spaced, LAMBDA ch : ch \notin Range(ambiguous))
       ELSE spaced

BuildAlphabet(allow_space, exclude_ambiguous) ==
    LET base == ascii_letters \o digits \o punctuation
        spaced == IF allow_space THEN Append(base, SPACE) ELSE base
        kept == IF exclude_ambiguous
                THEN SelectSeq(spaced, LAMBDA ch : ch \notin Range(ambiguous))
                ELSE spaced
    IN Dedup(kept)

LoadWordlist(path) ==
    LET f == WordlistFile(path)
        stripped == [i \in 1..Len(f) |-> Strip(f[i])]
    IN SelectSeq(stripped, LAMBDA w : Len(w) > 0 /\ ~StartsWith(w, HASH))

\* the wordlists and alphabets, computed once
Wordlists == [path \in WordlistPaths |-> LoadWordlist(path)]

Alphabets == [allow_space \in BOOLEAN, exclude_ambiguous \in BOOLEAN |->
                 BuildAlphabet(allow_space, exclude_ambiguous)]

BuildPhrase(chosen, separator, capitalize) ==
    Join(separator,
         IF capitalize THEN [i \in 1..Len(chosen) |-> Capitalize(chosen[i])]
         ELSE chosen)

(***************************************************************************)
(* Command lines (parse_args): the options of the mode not selected keep   *)
(* their defaults.                                                         *)
(***************************************************************************)
Lengths == {4, MinLength - 1, MinLength}
WordCounts == {MinWords - 1, MinWords, DefaultWords}
Separators == {<<SPACE>>, <<45>>}
MinEntropies == {Bits(50), Bits(DefaultMinEntropy)}

PasswordArgs ==
    [passphrase : {FALSE}, length : Lengths, no_space : BOOLEAN,
     no_ambiguous : BOOLEAN, words : {DefaultWords}, wordlist : {NoPath},
     sep : {<<SPACE>>}, caps : {FALSE},
     blocklist : {NoPath} \cup BlocklistPaths, min_entropy : MinEntropies]

PassphraseArgs ==
    [passphrase : {TRUE}, length : {DefaultLength}, no_space : {FALSE},
     no_ambiguous : {FALSE}, words : WordCounts,
     wordlist : {NoPath} \cup WordlistPaths,
     sep : Separators, caps : BOOLEAN,
     blocklist : {NoPath} \cup BlocklistPaths, min_entropy : MinEntropies]

NoProbe == [stage |-> "off", space_size |-> 0, length |-> 0, result |-> 0, passes |-> FALSE]

\* the state of a run before its first statement
Fresh ==
    /\ pc = "main"
    /\ alphabet = <<>>
    /\ vocab = 0
    /\ drawn = <<>>
    /\ secret = <<>>
    /\ entropy = 0
    /\ draws = 0
    /\ bl = {}
    /\ bl_loaded = FALSE
    /\ stdout = <<>>
    /\ exit_msg = ""
    /\ probe = NoProbe

Init ==
    /\ args \in PasswordArgs \cup PassphraseArgs
    /\ Fresh

(***************************************************************************)
(* main                                                                    *)
(***************************************************************************)
\* raise SystemExit(reason), or an exception nobody catches
Refuse(reason) ==
    /\ pc' = "exit"
    /\ exit_msg' = reason

\* a length floor one too low
LengthTooShort_OffByOne(length) == length < MinLength - 1

LengthTooShort(length) == length < MinLength

WordsTooFew(words) == words < MinWords

\* a vocabulary floor that refuses the floor itself
VocabTooSmall_Inclusive(n) == n <= MinVocab

VocabTooSmall(n) == n < MinVocab

AlphabetTooSmall(alpha) == Len(alpha) < MinAlphabet

\* a comparison the wrong way round
EntropyBelowFloor_Inverted(e, floor) == floor < e

EntropyBelowFloor(e, floor) == e < floor

\* generate_password(length, allow_space, exclude_ambiguous)
generate_password(length, allow_space, exclude_ambiguous) ==
    LET alpha == Alphabets[allow_space, exclude_ambiguous]
    IN IF AlphabetTooSmall(alpha)
       THEN /\ Refuse("alphabet-too-small")
            /\ alphabet' = alpha
            /\ UNCHANGED <<secret, entropy, draws>>
       ELSE \E p \in [1..length -> Picks(Len(alpha))] :
                /\ alphabet' = alpha
                /\ secret' = pick_chars(alpha, length, p)
                /\ draws' = draws + length
                /\ entropy' = bits_of_entropy(Len(alpha), length)
                /\ pc' = "entropy"
                /\ UNCHANGED exit_msg

\* generate_passphrase(num_words, wordlist_path, separator, capitalize)
generate_passphrase(num_words, wordlist_path, separator, capitalize) ==
    LET words == Wordlists[wordlist_path]
    IN IF VocabTooSmall(Len(words))
       THEN /\ Refuse("wordlist-too-small")
            /\ vocab' = Len(words)
            /\ UNCHANGED <<drawn, secret, entropy, draws>>
       ELSE \E p \in [1..num_words -> Picks(Len(words))] :
                LET chosen == [i \in 1..num_words |-> words[p[i]]]
                IN /\ vocab' = Len(words)
                   /\ drawn' = chosen
                   /\ draws' = draws + num_words
                   /\ secret' = BuildPhrase(chosen, separator, capitalize)
                   /\ entropy' = bits_of_entropy(Len(words), num_words)
                   /\ pc' = "entropy"
                   /\ UNCHANGED exit_msg

\* main, password mode
MainPassword ==
    /\ pc = "main"
    /\ ~args.passphrase
    /\ IF LengthTooShort(args.length)
       THEN /\ Refuse("length-too-short")
            /\ UNCHANGED <<alphabet, secret, entropy, draws>>
       ELSE generate_password(args.length, ~args.no_space, args.no_ambiguous)
    /\ UNCHANGED <<args, vocab, drawn, bl, bl_loaded, stdout, probe>>

\* main, passphrase mode
MainPassphrase ==
    /\ pc = "main"
    /\ args.passphrase
    /\ IF args.wordlist = NoPath
       THEN /\ Refuse("missing-wordlist")
            /\ UNCHANGED <<vocab, drawn, secret, entropy, draws>>
       ELSE IF WordsTooFew(args.words)
       THEN /\ Refuse("words-too-few")
            /\ UNCHANGED <<vocab, drawn, secret, entropy, draws>>
       ELSE generate_passphrase(args.words, args.wordlist, args.sep, args.caps)
    /\ UNCHANGED <<args, alphabet, bl, bl_loaded, stdout, probe>>

\* an entropy check that screens the blocklist first
EntropyCheck_AfterBlocklist ==
    /\ pc = "entropy"
    /\ bl' = load_blocklist(args.blocklist)
    /\ bl_loaded' = TRUE
    /\ IF bl' # {} /\ check_blocklist(secret, bl')
       THEN Refuse("blocklisted")
       ELSE IF EntropyBelowFloor(entropy, args.min_entropy)
       THEN Refuse("entropy-below-floor")
       ELSE pc' = "blocklist" /\ UNCHANGED exit_msg
    /\ UNCHANGED <<args, alphabet, vocab, drawn, secret, entropy, draws,
                   stdout, probe>>

\* main: the entropy check
EntropyCheck ==
    /\ pc = "entropy"
    /\ IF EntropyBelowFloor(entropy, args.min_entropy)
       THEN Refuse("entropy-below-floor")
       ELSE pc' = "blocklist" /\ UNCHANGED exit_msg
    /\ UNCHANGED <<args, alphabet, vocab, drawn, secret, entropy, draws,
                   bl, bl_loaded, stdout, probe>>

\* main: the optional blocklist screening
BlocklistScreen ==
    /\ pc = "blocklist"
    /\ bl' = load_blocklist(args.blocklist)
    /\ bl_loaded' = TRUE
    /\ IF bl' # {} /\ check_blocklist(secret, bl')
       THEN Refuse("blocklisted")
       ELSE pc' = "output" /\ UNCHANGED exit_msg
    /\ UNCHANGED <<args, alphabet, vocab, drawn, secret, entropy, draws,
                   stdout, probe>>

\* main: print(secret)
Output ==
    /\ pc = "output"
    /\ stdout' = Append(stdout, secret)
    /\ pc' = "done"
    /\ UNCHANGED <<args, alphabet, vocab, drawn, secret, entropy, draws,
                   bl, bl_loaded, exit_msg, probe>>

Next ==
    \/ MainPassword
    \/ MainPassphrase
    \/ EntropyCheck
    \/ BlocklistScreen
    \/ Output

Spec == Init /\ [][Next]_vars

(***************************************************************************)
(* generate_password on its own, called with each length its contract      *)
(* allows up to MaxLength.                                                 *)
(***************************************************************************)
InitPassword ==
    /\ args \in [passphrase : {FALSE}, length : MinLength..MaxLength,
                 no_space : BOOLEAN, no_ambiguous : BOOLEAN,
                 words : {DefaultWords}, wordlist : {NoPath},
                 sep : {<<SPACE>>}, caps : {FALSE}, blocklist : {NoPath},
                 min_entropy : {Bits(DefaultMinEntropy)}]
    /\ Fresh

CallGeneratePassword ==
    /\ pc = "main"
    /\ generate_password(args.length, ~args.no_space, args.no_ambiguous)
    /\ UNCHANGED <<args, vocab, drawn, bl, bl_loaded, stdout, probe>>

NextPassword == CallGeneratePassword

PasswordSpec == InitPassword /\ [][NextPassword]_vars

(***************************************************************************)
(* generate_passphrase on its own, called with any number of words up to   *)
(* MaxWords, below main's floor of 3 too.                                  *)
(***************************************************************************)
InitPassphrase ==
    /\ args \in [passphrase : {TRUE}, length : {DefaultLength},
                 no_space : {FALSE}, no_ambiguous : {FALSE},
                 words : 0..MaxWords, wordlist : WordlistPaths,
                 sep : Separators, caps : BOOLEAN, blocklist : {NoPath},
                 min_entropy : {Bits(DefaultMinEntropy)}]
    /\ Fresh

CallGeneratePassphrase ==
    /\ pc = "main"
    /\ generate_passphrase(args.words, args.wordlist, args.sep, args.caps)
    /\ UNCHANGED <<args, alphabet, bl, bl_loaded, stdout, probe>>

NextPassphrase == CallGeneratePassphrase

PassphraseSpec == InitPassphrase /\ [][NextPassphrase]_vars

(***************************************************************************)
(* bits_of_entropy and the entropy check on their own: the draw space and  *)
(* the number of draws are drawn from bounded sets.                        *)
(***************************************************************************)
ProbeSpaces == (-1..MaxSpace) \cup {16, 64, 71, 72, 94, 95, MinVocab - 1, MinVocab, MinVocab + 1}
ProbeLengths == (-1..MaxLength) \cup {DefaultLength}

InitEntropy ==
    /\ args = CHOOSE a \in PassphraseArgs : TRUE
    /\ pc = "off"
    /\ alphabet = <<>>
    /\ vocab = 0
    /\ drawn = <<>>
    /\ secret = <<>>
    /\ entropy = 0
    /\ draws = 0
    /\ bl = {}
    /\ bl_loaded = FALSE
    /\ stdout = <<>>
    /\ exit_msg = ""
    /\ probe \in [stage : {"call"}, space_size : ProbeSpaces, length : ProbeLengths,
                  result : {0}, passes : {FALSE}]

\* entropy = bits_of_entropy(space_size, length)
CallBitsOfEntropy ==
    /\ probe.stage = "call"
    /\ probe' = [probe EXCEPT !.stage = "check",
                              !.result = bits_of_entropy(probe.space_size, probe.length)]
    /\ UNCHANGED mainVars

\* the entropy check of main against the default floor
CheckDefaultFloor ==
    /\ probe.stage = "check"
    /\ probe' = [probe EXCEPT !.stage = "done",
                              !.passes = ~EntropyBelowFloor(probe.result, Bits(DefaultMinEntropy))]
    /\ UNCHANGED mainVars

NextEntropy ==
    \/ CallBitsOfEntropy
    \/ CheckDefaultFloor

EntropySpec == InitEntropy /\ [][NextEntropy]_vars

(***************************************************************************)
(* What the claims speak of, read off the command line and the files.      *)
(***************************************************************************)
\* the reason the pre-generation validation gives, "" when it passes
PrecheckReason ==
    IF ~args.passphrase
    THEN (IF args.length < 8 THEN "length-too-short" ELSE "")
    ELSE IF args.wordlist = "none" THEN "missing-wordlist"
    ELSE IF args.words < 3 THEN "words-too-few"
    ELSE ""

RejectReasons ==
    {"length-too-short", "words-too-few", "missing-wordlist", "wordlist-too-small",
     "alphabet-too-small", "entropy-below-floor", "blocklisted"}

\* a secret was generated in this run
Generated ==
    \/ pc \in {"entropy", "blocklist", "output", "done"}
    \/ pc = "exit" /\ exit_msg \in {"entropy-below-floor", "blocklisted"}

\* s is, character for character, a line of the blocklist file
Listed(path, s) ==
    /\ path # "none"
    /\ Len(s) > 0
    /\ \E i \in 1..Len(BlocklistFile(path)) :
           \E t \in {<<>>, <<10>>, <<13, 10>>} : BlocklistFile(path)[i] = s \o t

AmbiguousGlyphs ==
    {73, 108, 49, 79, 48, 124, 96, 39, 34, 59, 58, 46, 44,
     123, 125, 91, 93, 40, 41, 60, 62, 94, 126}

\* where the i-th word starts in the joined passphrase
RECURSIVE WordOffset(_, _, _)
WordOffset(ws, sep, i) ==
    IF i <= 1 THEN 0
    ELSE WordOffset(ws, sep, i - 1) + Len(ws[i - 1]) + Len(sep)

PhraseLength(ws, sep) ==
    IF Len(ws) = 0 THEN 0 ELSE WordOffset(ws, sep, Len(ws)) + Len(ws[Len(ws)])

(***************************************************************************)
(* The claims.                                                             *)
(***************************************************************************)
\* C1: the secret is written to standard output only when the decision is
\* Accepted (precheck passed, generation succeeded, entropy not below the
\* floor, secret not on a non-empty supplied blocklist); on every Rejected
\* outcome nothing is written to standard output.
C1_OutputOnlyWhenAccepted ==
    /\ stdout # <<>> =>
           /\ pc = "done"
           /\ exit_msg = ""
           /\ stdout = <<secret>>
           /\ PrecheckReason = ""
           /\ IF args.passphrase THEN vocab >= 2048 ELSE Len(alphabet) >= 10
           /\ entropy >= args.min_entropy
           /\ ~Listed(args.blocklist, secret)
    /\ pc = "done" => stdout = <<secret>>
    /\ pc = "exit" => exit_msg \in RejectReasons /\ stdout = <<>>
    /\ exit_msg # "" => pc = "exit"

C1_Witness ==
    /\ pc = "done"
    /\ stdout = <<secret>>
    /\ Len(secret) = 8
    /\ args.blocklist = "breached"

\* C2: a request that fails the pre-generation validation (password length
\* below 8, passphrase with no wordlist or fewer than 3 words) is rejected
\* with that reason and no random draw has happened in the run.
C2_PrecheckBeforeRandomness ==
    /\ PrecheckReason # "" =>
           /\ draws = 0
           /\ secret = <<>>
           /\ pc \in {"main", "exit"}
           /\ pc = "exit" => exit_msg = PrecheckReason
    /\ exit_msg \in {"length-too-short", "words-too-few", "missing-wordlist"} =>
           draws = 0 /\ exit_msg = PrecheckReason

C2_Witness ==
    /\ pc = "exit"
    /\ ~args.passphrase
    /\ args.length = 4
    /\ exit_msg = "length-too-short"
    /\ draws = 0

\* C3: with a non-empty blocklist supplied, a generated secret exactly equal
\* to an entry is rejected as blocklisted though its entropy is at or above
\* the floor; a secret that is no exact member (or an empty or absent
\* blocklist) is not rejected by the blocklist gate.
C3_BlocklistGate ==
    /\ exit_msg = "blocklisted" =>
           /\ Listed(args.blocklist, secret)
           /\ entropy >= args.min_entropy
    /\ pc \in {"output", "done"} => ~Listed(args.blocklist, secret)
    /\ bl_loaded /\ pc = "exit" => exit_msg = "blocklisted"
    /\ bl_loaded /\ args.blocklist \in {"none", "empty"} => pc \in {"output", "done"}

C3_Witness ==
    /\ exit_msg = "blocklisted"
    /\ entropy >= args.min_entropy
    /\ secret \in bl

\* C4: bits_of_entropy(spaceSize, draws) is 0 when spaceSize <= 1 or
\* draws <= 0, and draws * log2(spaceSize) otherwise; 2048 words and 6 draws
\* give exactly 66 bits, which passes the default 64-bit floor.
C4_EntropyFormula ==
    probe.stage \in {"check", "done"} =>
        LET s == probe.space_size
            n == probe.length
            r == probe.result
        IN /\ (s <= 1 \/ n <= 0) => r = 0
           /\ (s > 1 /\ n > 0) =>
                  /\ r = n * Log2Fixed(s)
                  /\ \E k \in 0..11 :
                         /\ Pow2(k) <= s /\ s < Pow2(k + 1)
                         /\ n * Bits(k) <= r /\ r < n * Bits(k + 1)
                         /\ s = Pow2(k) => r = n * Bits(k)
           /\ (s = 2048 /\ n = 6) =>
                  /\ r = Bits(66)
                  /\ probe.stage = "done" => probe.passes
           /\ probe.stage = "done" => (probe.passes <=> r >= Bits(64))

C4_Witness ==
    /\ probe.stage = "done"
    /\ probe.space_size = 2048
    /\ probe.length = 6
    /\ probe.result = Bits(66)
    /\ probe.passes

\* C5 as stated: with capitalize, every chosen word appears in the
\* passphrase with its first character uppercased and all its remaining
\* characters unchanged.
C5_RestUnchanged ==
    (args.passphrase /\ args.caps /\ Generated) =>
        /\ Len(secret) = PhraseLength(drawn, args.sep)
        /\ \A i \in 1..Len(drawn) : \A j \in 1..Len(drawn[i]) :
               secret[WordOffset(drawn, args.sep, i) + j] =
                   IF j = 1 THEN Upper(drawn[i][j]) ELSE drawn[i][j]

\* C5 as amended: with capitalize, every chosen word appears in the
\* passphrase with its first character uppercased and all its remaining
\* characters lowercased.
C5_RestLowercased ==
    (args.passphrase /\ args.caps /\ Generated) =>
        /\ Len(drawn) = args.words
        /\ Len(secret) = PhraseLength(drawn, args.sep)
        /\ \A i \in 1..Len(drawn) : \A j \in 1..Len(drawn[i]) :
               secret[WordOffset(drawn, args.sep, i) + j] =
                   IF j = 1 THEN Upper(drawn[i][j]) ELSE Lower(drawn[i][j])

C5_Witness ==
    /\ args.passphrase
    /\ args.caps
    /\ Generated
    /\ \E i \in 1..Len(drawn) : \E j \in 2..Len(drawn[i]) :
           drawn[i][j] \in 65..90

\* C6: for every length L >= 8 and every combination of allowSpace and
\* excludeAmbiguous, generate_password returns a secret of exactly L symbols,
\* each a member of the alphabet returned with it, whatever the sampler draws.
C6_PasswordLength ==
    (~args.passphrase /\ args.length >= 8 /\ Generated) =>
        /\ Len(secret) = args.length
        /\ Range(secret) \subseteq Range(alphabet)

C6_Witness ==
    /\ ~args.passphrase
    /\ Generated
    /\ Len(secret) = 8
    /\ \E i, j \in 1..Len(secret) : secret[i] # secret[j]

\* C7: with excludeAmbiguous, none of the ambiguous glyphs
\* I l 1 O 0 | ` ' " ; : . , { } [ ] ( ) < > ^ ~ is in the alphabet or in a
\* generated password, and the alphabet never holds a symbol twice.
C7_AmbiguousExcluded ==
    /\ Cardinality(Range(alphabet)) = Len(alphabet)
    /\ (~args.passphrase /\ args.no_ambiguous) =>
           /\ Range(alphabet) \cap AmbiguousGlyphs = {}
           /\ Range(secret) \cap AmbiguousGlyphs = {}

C7_Witness ==
    /\ ~args.passphrase
    /\ args.no_ambiguous
    /\ Generated
    /\ Len(alphabet) > 0
    /\ Len(secret) = args.length

\* C8: generate_passphrase fails with VocabularyTooSmall whenever the loaded
\* vocabulary has fewer than 2048 tokens, for any numWords and before any
\* word is drawn; with 2048 tokens or more it does not.
C8_VocabularyFloor ==
    (args.passphrase /\ pc # "main") =>
        /\ vocab = WordlistTokens(args.wordlist)
        /\ vocab < 2048 =>
               /\ pc = "exit"
               /\ exit_msg = "wordlist-too-small"
               /\ draws = 0
               /\ drawn = <<>>
               /\ secret = <<>>
        /\ vocab >= 2048 =>
               /\ pc = "entropy"
               /\ exit_msg = ""
               /\ draws = args.words
               /\ Len(drawn) = args.words

C8_Witness ==
    /\ args.passphrase
    /\ args.words = 2
    /\ vocab = 2047
    /\ exit_msg = "wordlist-too-small"
    /\ draws = 0

\* C9: the stages run in the order precheck, generation, entropy gate,
\* blocklist gate, accept, and the Rejected reason is that of the first
\* failing stage: a secret below the entropy floor is rejected as
\* entropy-below-floor even when it is on the blocklist, which is not
\* consulted until the entropy gate has passed.
C9_FirstFailingStage ==
    /\ (PrecheckReason # "" /\ pc # "main") =>
           pc = "exit" /\ exit_msg = PrecheckReason /\ ~bl_loaded
    /\ exit_msg \in {"wordlist-too-small", "alphabet-too-small"} =>
           PrecheckReason = "" /\ draws = 0 /\ ~bl_loaded
    /\ (Generated /\ entropy < args.min_entropy /\ pc # "entropy") =>
           pc = "exit" /\ exit_msg = "entropy-below-floor" /\ ~bl_loaded
    /\ exit_msg = "entropy-below-floor" => Generated /\ entropy < args.min_entropy
    /\ bl_loaded => Generated /\ entropy >= args.min_entropy
    /\ pc \in {"output", "done"} => bl_loaded
    /\ ~bl_loaded => bl = {}

C9_Witness ==
    /\ exit_msg = "entropy-below-floor"
    /\ Listed(args.blocklist, secret)
    /\ ~bl_loaded

\* C10: for the four combinations of (allowSpace, excludeAmbiguous) the
\* alphabet has the fixed size 95, 94, 72 or 71, never below 10, so
\* alphabet-too-small is never the reason of the decision.
C10_AlphabetSize ==
    /\ exit_msg # "alphabet-too-small"
    /\ (~args.passphrase /\ args.length >= 8 /\ pc # "main") =>
           /\ Len(alphabet) >= 10
           /\ Len(alphabet) =
                  IF args.no_ambiguous
                  THEN (IF args.no_space THEN 71 ELSE 72)
                  ELSE (IF args.no_space THEN 94 ELSE 95)
           /\ Generated

C10_Witness ==
    /\ ~args.passphrase
    /\ args.no_space
    /\ args.no_ambiguous
    /\ Len(alphabet) = 71
    /\ Generated

====
